---- MODULE Spec2Model ----
(***************************************************************************)
(* smog-rs: the task-orchestration layer of the weather station firmware.  *)
(*                                                                         *)
(* Tasks run on a single cooperative executor: a task runs from one        *)
(* suspension point (Timer, Channel::receive, Signal::wait) to the next    *)
(* without interruption, so every action below is one such run.            *)
(*                                                                         *)
(* Time.  The program reads the clock only through Instant::elapsed()      *)
(* compared with a constant, and through timers.  The model therefore      *)
(* keeps, for every Instant the program stores, the time elapsed since it  *)
(* (saturated at the constant it is compared with), and for every pending  *)
(* timer the time remaining until it expires.  Tick(d) lets d milliseconds *)
(* pass.  A timer guarantees only a lower bound on the time slept: a       *)
(* sleeping task may resume in any state where its timer has run out.      *)
(***************************************************************************)
EXTENDS Integers, Sequences, FiniteSets, TLC

(* ------------------------------ bounds --------------------------------- *)
MaxStreak == 22         \* longest run of VOC=1 readings after the warm-up
MaxPosts == 5           \* readings dequeued and POSTed in one run
MaxRequests == 3        \* reboot requests that are counted
MaxClients == 6         \* HttpClient instances constructed in one run
HealthStep == 20000     \* granularity of the clock in the health specification (ms)
MaxMarks == 3           \* calls of mark_time_synced that are counted
MaxRun == 65540         \* longest run of VOC=1 calls in the counter specification

(* ------------------------- program constants --------------------------- *)
SGP_40_WARMUP_SECS == 60
SGP_40_STUCK_AT_ONE_THRESHOLD == 20
U16_MAX == 65535
SETTLE_MS == 50
HTTP_SEND_INTERVAL_MS == 60000
EXECUTION_DELAY_MS == 1000
CHANNEL_CAPACITY == 2
REBOOT_GRACE_MS == 200
INIT_RETRY_SECS == 2
RATE_LIMIT_SECS == 5
REQUEST_RETRY_SECS == 2
MAX_WAIT_CYCLES == 100
GRACE_SECS == 30
MAIN_MAX_WAIT_CYCLES == 500
MAIN_NTP_POLL_MS == 100
MAIN_START_DELAY_MS == 1000
NTP_POLL_MS == 100
WATCH_SYNCED_SECS == 60
WATCH_PENDING_SECS == 1

\* Option<T> and Result<T, E> values
None == <<>>
Some(v) == <<v>>
Err == <<"Err">>
Ok(v) == <<"Ok", v>>
NoClient == 0

Min(a, b) == IF a < b THEN a ELSE b
Max(a, b) == IF a > b THEN a ELSE b

VARIABLES
    HTTP_SENDING_ENABLED,   \* env!("HTTP_SENDING_ENABLED"), fixed at build time
    \* sensor_task and its WeatherStation
    s_pc, s_timer, send_elapsed, sample,
    boot_elapsed, consecutive_one,
    \* reboot supervisor
    REBOOT_SIGNAL, r_pc, r_timer, restarted,
    \* delivery queue
    NETWORK_CHANNEL,
    \* network_task
    n_pc, n_timer, client,
    \* time synchronisation
    TIME_SYNCED, TIME_SYNCED_SIGNAL, sync_status, t_pc, t_timer, wait_cycles,
    \* history of the calls made (not read by any guard of the program)
    signals, marks, last_polled,
    read_result, sgp_out, observed, stuck_result, streak, try_send_result, accepted,
    cycle_checks, ever_stuck, requests, restarts, since_start,
    m_pc, m_timer, m_cycles, m_error,
    w_pc, w_timer, w_result,
    builds, posts, lastOutcome, lastPostClient, failedClients, onScript,
    lastDequeued, prevDequeued, lastSynced, deliveredFlags

sensorVars == <<s_pc, s_timer, send_elapsed, sample, boot_elapsed, consecutive_one>>
sensorHist == <<read_result, sgp_out, observed, stuck_result, streak, try_send_result,
                accepted, cycle_checks, ever_stuck, requests>>
rebootVars == <<r_pc, r_timer, restarts>>
mainVars == <<m_pc, m_timer, m_cycles, m_error>>
waitVars == <<w_pc, w_timer, w_result>>
netVars == <<n_pc, n_timer, client>>
timeVars == <<TIME_SYNCED, TIME_SYNCED_SIGNAL, sync_status, t_pc, t_timer, wait_cycles,
              signals, marks, last_polled>>
netHist == <<builds, posts, lastOutcome, lastPostClient, failedClients, onScript,
             lastDequeued, prevDequeued, lastSynced, deliveredFlags>>

vars == <<HTTP_SENDING_ENABLED, since_start, sensorVars, REBOOT_SIGNAL, rebootVars, restarted,
          NETWORK_CHANNEL, netVars, timeVars, mainVars, waitVars, sensorHist, netHist>>

(* ------------------------------ inputs --------------------------------- *)
\* bme280.read_sample(): an I2C error, or a sample whose three fields are
\* each present or absent.
BmeSamples ==
    {Err} \cup {Ok([temperature |-> a, humidity |-> b, pressure |-> c]) : a, b, c \in BOOLEAN}

\* sgp40.measure_voc_index_with_rht(): Err, or a VOC index.
VocOutcomes == {Err, Ok(1), Ok(2)}

\* client.post_data(): Err (transport/request failure) or a status code.
Responses == {Err, Ok(200), Ok(201), Ok(429), Ok(500)}

\* The response script of the delivery test.
Script == <<Err, Ok(200), Ok(429), Ok(500), Err>>

\* EspSntp::get_sync_status()
SyncStatuses == {"Reset", "InProgress", "Completed"}

EnvValues == {"true", "false", "TRUE"}

(* ------------------------------- config -------------------------------- *)
\* Variant: anything but "false" enables sending.
is_sending_enabled_lax == HTTP_SENDING_ENABLED # "false"

is_sending_enabled == HTTP_SENDING_ENABLED = "true"

(* --------------------------- Sgp40Health ------------------------------- *)
\* Variant: the addition wraps at the width of u16.
wrapping_add(c, n) == (c + n) % (U16_MAX + 1)

\* u16::saturating_add
saturating_add(c, n) == IF c + n > U16_MAX THEN U16_MAX ELSE c + n

\* Variant: the threshold compared with > instead of >=.
check_stuck_condition_gt(c, voc, elapsed) ==
    IF elapsed < SGP_40_WARMUP_SECS * 1000
    THEN [counter |-> 0, stuck |-> FALSE]
    ELSE IF voc = Some(1)
         THEN [counter |-> saturating_add(c, 1),
               stuck |-> saturating_add(c, 1) > SGP_40_STUCK_AT_ONE_THRESHOLD]
         ELSE [counter |-> 0, stuck |-> FALSE]

\* Variant: the warm-up suppresses the detection but not the counting.
check_stuck_condition_counting(c, voc, elapsed) ==
    IF voc = Some(1)
    THEN [counter |-> saturating_add(c, 1),
          stuck |-> /\ elapsed >= SGP_40_WARMUP_SECS * 1000
                    /\ saturating_add(c, 1) >= SGP_40_STUCK_AT_ONE_THRESHOLD]
    ELSE [counter |-> 0, stuck |-> FALSE]

\* check_stuck_condition(&mut self, voc) at elapsed = boot_time.elapsed():
\* the new counter and the returned flag.
check_stuck_condition(c, voc, elapsed) ==
    IF elapsed < SGP_40_WARMUP_SECS * 1000
    THEN [counter |-> 0, stuck |-> FALSE]
    ELSE IF voc = Some(1)
         THEN [counter |-> saturating_add(c, 1),
               stuck |-> saturating_add(c, 1) >= SGP_40_STUCK_AT_ONE_THRESHOLD]
         ELSE [counter |-> 0, stuck |-> FALSE]

(* ------------------------------ channel -------------------------------- *)
\* Variant: a channel without a capacity.
try_send_unbounded(ch, d) == [ok |-> TRUE, ch |-> Append(ch, d)]

\* Channel::try_send: appends unless the channel is full.
try_send(ch, d) ==
    IF Len(ch) < CHANNEL_CAPACITY
    THEN [ok |-> TRUE, ch |-> Append(ch, d)]
    ELSE [ok |-> FALSE, ch |-> ch]

\* Variant: the newest message is taken.
receive_newest(ch) == [data |-> ch[Len(ch)], ch |-> SubSeq(ch, 1, Len(ch) - 1)]

\* Channel::receive on a non-empty channel: the oldest message.
receive(ch) == [data |-> Head(ch), ch |-> Tail(ch)]

(* ------------------------------- signal -------------------------------- *)
\* Variant: a signal that queues the values raised.
signal_queued(slot, v) == Append(slot, v)

\* Signal::signal: the value replaces whatever the slot holds.
signal(slot, v) == Some(v)

\* Signal::wait is ready when the slot holds a value; the value is taken.
signaled(slot) == slot # None

(* ------------------------------- Init ---------------------------------- *)
\* The state at boot: no task has been polled, the statics hold their
\* initial values, the WeatherStation is not built yet.
\* Variant: the live SNTP status is read instead of the flag.
is_time_synced_live == sync_status = "Completed"

\* is_time_synced(): a load of TIME_SYNCED.
is_time_synced == TIME_SYNCED

\* The tasks and their statics before any task has run.
InitTasks ==
    /\ HTTP_SENDING_ENABLED \in EnvValues
    /\ s_pc = "boot" /\ s_timer = 0 /\ send_elapsed = 0
    /\ sample = None
    /\ boot_elapsed = 0 /\ consecutive_one = 0
    /\ REBOOT_SIGNAL = None /\ r_pc = "wait" /\ r_timer = 0 /\ restarted = FALSE
    /\ NETWORK_CHANNEL = <<>>
    /\ n_pc = "start" /\ n_timer = 0 /\ client = NoClient
    /\ read_result = None /\ sgp_out = None /\ observed = None /\ stuck_result = FALSE /\ streak = 0
    /\ try_send_result = "none" /\ accepted = 0
    /\ cycle_checks = 0 /\ ever_stuck = FALSE /\ requests = 0 /\ restarts = 0
    /\ since_start = 0
    /\ m_pc = "ntp" /\ m_timer = 0 /\ m_cycles = 0 /\ m_error = None
    /\ w_pc = "idle" /\ w_timer = 0 /\ w_result = None
    /\ builds = 0 /\ posts = 0 /\ lastOutcome = None /\ lastPostClient = NoClient
    /\ failedClients = {} /\ onScript = TRUE
    /\ lastDequeued = 0 /\ prevDequeued = 0
    /\ lastSynced = None /\ deliveredFlags = {}

\* The time synchronisation before setup_ntp is called.
InitTime ==
    /\ TIME_SYNCED = FALSE /\ TIME_SYNCED_SIGNAL = None /\ sync_status = "Reset"
    /\ t_pc = "setup" /\ t_timer = 0 /\ wait_cycles = 0 /\ signals = 0
    /\ marks = 0 /\ last_polled = None

\* The time synchronisation when setup_ntp has returned its client: after
\* MAX_WAIT_CYCLES sleeps without Completed, or with Completed at the
\* poll after its first sleep.
InitTimeAfterSetup ==
    /\ t_pc = "ready" /\ t_timer = 0
    /\ \/ /\ TIME_SYNCED = FALSE /\ TIME_SYNCED_SIGNAL = None /\ sync_status = "Reset"
          /\ wait_cycles = MAX_WAIT_CYCLES /\ signals = 0 /\ marks = 0
          /\ last_polled = Some("Reset")
       \/ /\ TIME_SYNCED = TRUE /\ TIME_SYNCED_SIGNAL = Some("()")
          /\ sync_status = "Completed"
          /\ wait_cycles = 1 /\ signals = 1 /\ marks = 1
          /\ last_polled = Some("Completed")

Init == InitTasks /\ InitTime

(* ------------------------------- clock --------------------------------- *)
\* d milliseconds pass.  boot_elapsed is boot_time.elapsed() (boot_time is
\* set when the WeatherStation is built), send_elapsed is
\* last_send_time.elapsed() (set when sensor_task starts); the timers are
\* the pending Timer::after of each task.
Tick(d) ==
    /\ ~restarted
    /\ boot_elapsed' = IF s_pc = "boot" THEN 0
                       ELSE Min(boot_elapsed + d, SGP_40_WARMUP_SECS * 1000)
    /\ send_elapsed' = IF s_pc \in {"boot", "start"} THEN 0
                       ELSE Min(send_elapsed + d, HTTP_SEND_INTERVAL_MS)
    /\ s_timer' = Max(s_timer - d, 0)
    /\ n_timer' = Max(n_timer - d, 0)
    /\ r_timer' = Max(r_timer - d, 0)
    /\ t_timer' = Max(t_timer - d, 0)
    /\ m_timer' = Max(m_timer - d, 0)
    /\ w_timer' = Max(w_timer - d, 0)
    /\ since_start' = IF s_pc \in {"boot", "start"} THEN 0
                      ELSE Min(since_start + d, HTTP_SEND_INTERVAL_MS)
    /\ UNCHANGED <<HTTP_SENDING_ENABLED, m_pc, m_cycles, m_error, w_pc, w_result, s_pc, sample, consecutive_one, REBOOT_SIGNAL, r_pc,
                   restarts, restarted, NETWORK_CHANNEL, n_pc, client, TIME_SYNCED, TIME_SYNCED_SIGNAL,
                   sync_status, t_pc, wait_cycles, signals, marks, last_polled, sensorHist,
                   netHist>>

(* ---------------------------- sensor_task ------------------------------ *)
\* WeatherStation::new: Sgp40Health::new() takes boot_time = Instant::now().
StationNew ==
    /\ ~restarted
    /\ s_pc = "boot"
    /\ s_pc' = "start"
    /\ boot_elapsed' = 0
    /\ consecutive_one' = 0
    /\ UNCHANGED <<HTTP_SENDING_ENABLED, since_start, mainVars, waitVars, s_timer, send_elapsed, sample, REBOOT_SIGNAL,
                   rebootVars, restarted, NETWORK_CHANNEL, netVars, timeVars, sensorHist,
                   netHist>>

\* WeatherStation::read_sensor_data up to its first suspension: the BME280
\* read.  A complete sample goes on to the settle delay; an error or a
\* partial sample returns None, and sensor_task goes to its cadence sleep.
\* Variant: the pressure is not looked at.
complete_without_pressure(s) ==
    /\ s # Err
    /\ s[2].temperature /\ s[2].humidity

complete(s) ==
    /\ s # Err
    /\ s[2].temperature /\ s[2].humidity /\ s[2].pressure

\* Variant: a cycle without a reading feeds None to the health monitor.
after_failed_read_observing(c, elapsed) == check_stuck_condition(c, None, elapsed).counter

\* consecutive_one after a cycle in which read_sensor_data returned None:
\* sgp40_stuck_at_one is called only inside `if let Some(data)`, so the
\* counter is not touched.
after_failed_read(c, elapsed) == c

read_sample(s) ==
    /\ sample' = s
    /\ cycle_checks' = 0
    /\ IF complete(s)
       THEN /\ s_pc' = "settle"
            /\ s_timer' = SETTLE_MS
            /\ UNCHANGED <<read_result, sgp_out, consecutive_one>>
       ELSE /\ s_pc' = "sleep"
            /\ s_timer' = EXECUTION_DELAY_MS
            /\ read_result' = None
            /\ sgp_out' = None
            /\ consecutive_one' = after_failed_read(consecutive_one, boot_elapsed)

\* Variant: the first reading is due at once.
initial_send_elapsed_due == HTTP_SEND_INTERVAL_MS

\* last_send_time.elapsed() when sensor_task starts: last_send_time is
\* Instant::now().
initial_send_elapsed == 0

\* sensor_task is polled for the first time.
SensorStart(samples) ==
    /\ ~restarted
    /\ s_pc = "start"
    /\ send_elapsed' = initial_send_elapsed
    /\ since_start' = 0
    /\ \E s \in samples : read_sample(s)
    /\ UNCHANGED <<HTTP_SENDING_ENABLED, mainVars, waitVars, boot_elapsed, REBOOT_SIGNAL,
                   rebootVars, restarted, NETWORK_CHANNEL, netVars, timeVars,
                   observed, stuck_result, streak, try_send_result, accepted,
                   ever_stuck, requests, netHist>>

\* The cadence sleep is over: the next cycle's BME280 read.
SensorCycle(samples) ==
    /\ ~restarted
    /\ s_pc = "sleep"
    /\ s_timer = 0
    /\ \E s \in samples : read_sample(s)
    /\ UNCHANGED <<HTTP_SENDING_ENABLED, since_start, mainVars, waitVars, send_elapsed, boot_elapsed,
                   REBOOT_SIGNAL, rebootVars, restarted, NETWORK_CHANNEL, netVars, timeVars,
                   observed, stuck_result, streak, try_send_result, accepted,
                   ever_stuck, requests, netHist>>

\* The voc field of the reading: Ok(v) becomes Some(v), Err becomes None.
voc_of(r) == IF r = Err THEN None ELSE Some(r[2])

\* Variant: a reboot is requested whenever the monitor was fed.
request_reboot_always(is_stuck_at_one) == TRUE

\* Variant: the stuck condition is logged but no reboot is requested.
request_reboot_never(is_stuck_at_one) == FALSE

\* sensor_task signals REBOOT_SIGNAL if sgp40_stuck_at_one returned true.
request_reboot(is_stuck_at_one) == is_stuck_at_one

\* Variant: every reading is offered to the channel.
send_due_always(elapsed) == TRUE

\* The throttle of sensor_task: last_send_time.elapsed() >= send_interval.
send_due(elapsed) == elapsed >= HTTP_SEND_INTERVAL_MS

\* Variant: Channel::send, which suspends the sender while the channel is full.
send_suspends_when_full(ch) == Len(ch) >= CHANNEL_CAPACITY

\* Whether offering a reading suspends sensor_task: try_send never does.
send_suspends(ch) == FALSE

\* The settle delay is over: the SGP40 measurement, the reading, then the
\* rest of the loop body of sensor_task up to the cadence sleep.  A reading
\* carries, besides its fields, the number seq it would have among the
\* accepted readings.
SensorMeasure(outcomes) ==
    /\ ~restarted
    /\ s_pc = "settle"
    /\ s_timer = 0
    /\ \E r \in outcomes :
         LET data == [voc |-> voc_of(r), time_synced |-> is_time_synced, seq |-> accepted + 1]
             chk == check_stuck_condition(consecutive_one, data.voc, boot_elapsed)
             due == send_due(send_elapsed)
             req == request_reboot(chk.stuck)
             sent == try_send(NETWORK_CHANNEL, data)
             warm == boot_elapsed >= SGP_40_WARMUP_SECS * 1000
         IN  /\ (warm /\ r = Ok(1)) => streak < MaxStreak
             /\ ~(due /\ send_suspends(NETWORK_CHANNEL))
             /\ sgp_out' = Some(r)
             /\ read_result' = Some(data)
             /\ observed' = Some(data.voc)
             /\ consecutive_one' = chk.counter
             /\ stuck_result' = chk.stuck
             /\ streak' = IF warm /\ r = Ok(1) THEN streak + 1 ELSE 0
             /\ cycle_checks' = cycle_checks + 1
             /\ ever_stuck' = (ever_stuck \/ chk.stuck)
             /\ REBOOT_SIGNAL' = IF req THEN signal(REBOOT_SIGNAL, "Sgp40StuckAtOne")
                                        ELSE REBOOT_SIGNAL
             /\ requests' = IF req THEN Min(requests + 1, MaxRequests) ELSE requests
             /\ IF due
                THEN /\ NETWORK_CHANNEL' = sent.ch
                     /\ send_elapsed' = IF sent.ok THEN 0 ELSE send_elapsed
                     /\ try_send_result' = IF sent.ok THEN "ok" ELSE "full"
                     /\ accepted' = IF sent.ok THEN accepted + 1 ELSE accepted
                ELSE /\ UNCHANGED <<NETWORK_CHANNEL, send_elapsed, accepted>>
                     /\ try_send_result' = "none"
    /\ s_pc' = "sleep"
    /\ s_timer' = EXECUTION_DELAY_MS
    /\ UNCHANGED <<HTTP_SENDING_ENABLED, since_start, mainVars, waitVars, sample, boot_elapsed, rebootVars, restarted,
                   netVars, timeVars, netHist>>

\* WeatherStation::sgp40_stuck_at_one(voc) called on its own, with any voc
\* value: Sgp40Health::check_stuck_condition on the station's counter.
Sgp40StuckAtOne(vocs) ==
    /\ ~restarted
    /\ s_pc # "boot"
    /\ \E voc \in vocs :
          LET warm == boot_elapsed >= SGP_40_WARMUP_SECS * 1000
              chk == check_stuck_condition(consecutive_one, voc, boot_elapsed)
          IN  /\ (warm /\ voc = Some(1)) => streak < MaxRun
              /\ consecutive_one' = chk.counter
              /\ stuck_result' = chk.stuck
              /\ observed' = Some(voc)
              /\ streak' = IF warm /\ voc = Some(1) THEN streak + 1 ELSE 0
              /\ ever_stuck' = (ever_stuck \/ chk.stuck)
    /\ UNCHANGED <<HTTP_SENDING_ENABLED, since_start, mainVars, waitVars, s_pc, s_timer,
                   send_elapsed, sample, boot_elapsed, REBOOT_SIGNAL, rebootVars, restarted,
                   NETWORK_CHANNEL, netVars, timeVars, read_result, sgp_out,
                   try_send_result, accepted, cycle_checks, requests, netHist>>

(* ----------------------- reboot_supervisor_task ------------------------ *)
\* REBOOT_SIGNAL.wait() returns: the request is taken out of the signal.
RebootWake ==
    /\ ~restarted
    /\ r_pc = "wait"
    /\ signaled(REBOOT_SIGNAL)
    /\ REBOOT_SIGNAL' = None
    /\ r_pc' = "grace"
    /\ r_timer' = REBOOT_GRACE_MS
    /\ UNCHANGED restarts
    /\ UNCHANGED <<HTTP_SENDING_ENABLED, since_start, mainVars, waitVars, sensorVars, restarted, NETWORK_CHANNEL,
                   netVars, timeVars, sensorHist, netHist>>

\* The grace delay is over: esp_restart().
RebootRestart ==
    /\ ~restarted
    /\ r_pc = "grace"
    /\ r_timer = 0
    /\ restarted' = TRUE
    /\ restarts' = restarts + 1
    /\ r_pc' = "restarted"
    /\ UNCHANGED <<HTTP_SENDING_ENABLED, since_start, mainVars, waitVars, sensorVars, REBOOT_SIGNAL, r_timer,
                   NETWORK_CHANNEL, netVars, timeVars, sensorHist, netHist>>

(* ---------------------------- network_task ----------------------------- *)
\* Where network_task's loop resumes once the match on the POST result (and
\* the arm's delay, if any) is done: every arm, with or without `continue`,
\* leads back to the top of the one loop, where HttpClient::new() is called.
\* Variant: a failed request ends the task.
next_iteration_halt(outcome) == IF outcome = Err THEN "done" ELSE "new"

\* Variant: an inner loop that keeps the client unless the request failed.
next_iteration_reuse(outcome) == IF outcome = Err THEN "new" ELSE "receive"

\* Variant: an inner loop that keeps the client whatever happened.
next_iteration_keep(outcome) == "receive"

next_iteration(outcome) == "new"

\* The arm's delay in ms (0: the arm does not suspend).
arm_delay(outcome) ==
    IF outcome = Err THEN REQUEST_RETRY_SECS * 1000
    ELSE IF outcome = Ok(429) THEN RATE_LIMIT_SECS * 1000
    ELSE 0

\* network_task is polled for the first time.
NetStart ==
    /\ ~restarted
    /\ n_pc = "start"
    /\ n_pc' = IF ~is_sending_enabled THEN "done" ELSE "new"
    /\ UNCHANGED <<HTTP_SENDING_ENABLED, since_start, mainVars, waitVars, sensorVars, REBOOT_SIGNAL, rebootVars, restarted,
                   NETWORK_CHANNEL, n_timer, client, timeVars, sensorHist, netHist>>

\* Variant: the result of HttpClient::new() is not looked at.
after_new_unchecked(ok) == "receive"

\* Where the loop goes after HttpClient::new(): on to the receive with the
\* client, or, on Err, into the two-second delay and `continue`.
after_new(ok) == IF ok THEN "receive" ELSE "delay"

\* Top of the loop: HttpClient::new() succeeds (a new instance, numbered
\* in construction order) or fails.
NetNew ==
    /\ ~restarted
    /\ n_pc = "new"
    /\ \E ok \in BOOLEAN :
          /\ ok => builds < MaxClients
          /\ builds' = IF ok THEN builds + 1 ELSE builds
          /\ client' = IF ok THEN builds + 1 ELSE NoClient
          /\ n_pc' = after_new(ok)
          /\ n_timer' = IF after_new(ok) = "delay" THEN INIT_RETRY_SECS * 1000 ELSE n_timer
    /\ UNCHANGED <<HTTP_SENDING_ENABLED, since_start, mainVars, waitVars, sensorVars, REBOOT_SIGNAL, rebootVars, restarted,
                   NETWORK_CHANNEL, timeVars, sensorHist, posts, lastOutcome, lastPostClient,
                   failedClients, onScript, lastDequeued, prevDequeued, lastSynced,
                   deliveredFlags>>

\* Variant: a reading whose POST did not end in 200/201 is put back.
after_post_requeue(ch, data, outcome) ==
    IF outcome \in {Ok(200), Ok(201)} THEN ch ELSE try_send(ch, data).ch

\* The channel once the match on the POST result is done: no arm touches
\* it, and the reading that was POSTed is dropped with the iteration.
after_post(ch, data, outcome) == ch

\* NETWORK_CHANNEL.receive() returns a reading, post_data is called on the
\* current client, and the match arm runs up to its delay or the loop end.
NetPostOf(responses) ==
    /\ ~restarted
    /\ n_pc = "receive"
    /\ NETWORK_CHANNEL # <<>>
    /\ posts < MaxPosts
    /\ LET got == receive(NETWORK_CHANNEL)
       IN  /\ prevDequeued' = lastDequeued
           /\ lastDequeued' = got.data.seq
           /\ lastSynced' = Some(got.data.time_synced)
           /\ deliveredFlags' = deliveredFlags \cup {got.data.time_synced}
    /\ \E outcome \in responses :
          /\ LET got == receive(NETWORK_CHANNEL)
             IN  NETWORK_CHANNEL' = after_post(got.ch, got.data, outcome)
          /\ lastOutcome' = Some(outcome)
          /\ failedClients' = IF outcome = Err THEN failedClients \cup {client}
                                               ELSE failedClients
          /\ onScript' = (onScript /\ posts < Len(Script) /\ outcome = Script[posts + 1])
          /\ IF arm_delay(outcome) > 0
             THEN /\ n_pc' = "delay"
                  /\ n_timer' = arm_delay(outcome)
                  /\ UNCHANGED client
             ELSE /\ n_pc' = next_iteration(outcome)
                  /\ client' = IF next_iteration(outcome) = "new" THEN NoClient ELSE client
                  /\ UNCHANGED n_timer
    /\ posts' = posts + 1
    /\ lastPostClient' = client
    /\ UNCHANGED <<HTTP_SENDING_ENABLED, since_start, mainVars, waitVars, sensorVars, REBOOT_SIGNAL, rebootVars, restarted,
                   timeVars, sensorHist, builds>>

NetPost == NetPostOf(Responses)

\* A delay of network_task is over (after a failed construction, a 429 or
\* a failed request): the loop goes on, and the client of the finished
\* iteration is dropped.
NetResume ==
    /\ ~restarted
    /\ n_pc = "delay"
    /\ n_timer = 0
    /\ LET target == IF client = NoClient THEN "new"
                     ELSE next_iteration(lastOutcome[1])
       IN  /\ n_pc' = target
           /\ client' = IF target = "new" THEN NoClient ELSE client
    /\ UNCHANGED <<HTTP_SENDING_ENABLED, since_start, mainVars, waitVars, sensorVars, REBOOT_SIGNAL, rebootVars, restarted,
                   NETWORK_CHANNEL, n_timer, timeVars, sensorHist, netHist>>

(* ------------------------- time synchronisation ----------------------- *)
\* Variant: the flag is stored, and the signal raised, on every call.
mark_time_synced_store(flag) == [flag |-> TRUE, signal |-> TRUE]

\* Variant: the flag is set but the signal is never raised.
mark_time_synced_silent(flag) == [flag |-> TRUE, signal |-> FALSE]

\* mark_time_synced(): TIME_SYNCED.swap(true) returns the old flag, and the
\* signal is raised only if that was false.
mark_time_synced(flag) == [flag |-> TRUE, signal |-> ~flag]

\* Variant: a poll that does not see Completed clears the flag.
poll_tracking(status, flag) ==
    IF status = "Completed" THEN mark_time_synced(flag)
                            ELSE [flag |-> FALSE, signal |-> FALSE]

\* What one poll of get_sync_status() does to the flag, in setup_ntp and in
\* ntp_sync_watcher alike: mark_time_synced() if the status is Completed,
\* nothing otherwise.
poll(status, flag) ==
    IF status = "Completed" THEN mark_time_synced(flag)
                            ELSE [flag |-> flag, signal |-> FALSE]

\* The effect of a poll on the statics and on the history.
apply_poll ==
    LET r == poll(sync_status, TIME_SYNCED)
    IN  /\ TIME_SYNCED' = r.flag
        /\ TIME_SYNCED_SIGNAL' = IF r.signal THEN signal(TIME_SYNCED_SIGNAL, "()")
                                             ELSE TIME_SYNCED_SIGNAL
        /\ signals' = IF r.signal THEN signals + 1 ELSE signals
        /\ marks' = IF sync_status = "Completed" THEN Min(marks + 1, MaxMarks) ELSE marks
        /\ last_polled' = Some(sync_status)

\* The loop head of setup_ntp: one poll, then the timeout check, the
\* 100 ms sleep, or the return.
setup_poll(cycles) ==
    /\ apply_poll
    /\ wait_cycles' = cycles
    /\ IF sync_status # "Completed" /\ cycles < MAX_WAIT_CYCLES
       THEN t_pc' = "setup_wait" /\ t_timer' = NTP_POLL_MS
       ELSE t_pc' = "ready" /\ t_timer' = 0

\* setup_ntp is called: EspSntp::new_default() fails (the error is
\* returned), or the polling loop is entered.
NtpSetup ==
    /\ ~restarted
    /\ t_pc = "setup"
    /\ \/ /\ t_pc' = "failed"
          /\ UNCHANGED <<TIME_SYNCED, TIME_SYNCED_SIGNAL, t_timer, wait_cycles, signals,
                         marks, last_polled>>
       \/ setup_poll(0)
    /\ UNCHANGED <<HTTP_SENDING_ENABLED, since_start, mainVars, waitVars, sensorVars, REBOOT_SIGNAL, rebootVars, restarted,
                   NETWORK_CHANNEL, netVars, sync_status, sensorHist, netHist>>

\* The 100 ms sleep of setup_ntp is over: wait_cycles += 1 and the next poll.
NtpSetupResume ==
    /\ ~restarted
    /\ t_pc = "setup_wait"
    /\ t_timer = 0
    /\ setup_poll(wait_cycles + 1)
    /\ UNCHANGED <<HTTP_SENDING_ENABLED, since_start, mainVars, waitVars, sensorVars, REBOOT_SIGNAL, rebootVars, restarted,
                   NETWORK_CHANNEL, netVars, sync_status, sensorHist, netHist>>

\* One iteration of ntp_sync_watcher, which runs on the client setup_ntp
\* returned: a poll, then the long or the short sleep.
NtpWatch ==
    /\ ~restarted
    /\ t_pc \in {"ready", "watch_wait"}
    /\ t_timer = 0
    /\ apply_poll
    /\ t_pc' = "watch_wait"
    /\ t_timer' = IF sync_status = "Completed" THEN WATCH_SYNCED_SECS * 1000
                                               ELSE WATCH_PENDING_SECS * 1000
    /\ UNCHANGED <<HTTP_SENDING_ENABLED, since_start, mainVars, waitVars, sensorVars, REBOOT_SIGNAL, rebootVars, restarted,
                   NETWORK_CHANNEL, netVars, sync_status, wait_cycles, sensorHist, netHist>>

\* The SNTP service changes its status (a reply arrives, a resync starts).
SntpChange ==
    /\ ~restarted
    /\ t_pc # "setup"
    /\ sync_status' \in SyncStatuses \ {sync_status}
    /\ UNCHANGED <<HTTP_SENDING_ENABLED, since_start, mainVars, waitVars, sensorVars, REBOOT_SIGNAL, rebootVars, restarted,
                   NETWORK_CHANNEL, netVars, TIME_SYNCED, TIME_SYNCED_SIGNAL, t_pc, t_timer,
                   wait_cycles, signals, marks, last_polled, sensorHist, netHist>>

(* -------------------- wait_time_sync_grace_period ---------------------- *)
\* Variant: only the signal ends the wait.
grace_over_on_signal(sig, timer) == signaled(sig)

\* select(TIME_SYNCED_SIGNAL.wait(), Timer::after_secs(30)) is ready when
\* either of its futures is.
grace_over(sig, timer) == signaled(sig) \/ timer = 0

\* What the select returns: the signal's future is polled first and takes
\* the value out of the signal.
grace_return ==
    /\ w_pc' = "returned"
    /\ IF signaled(TIME_SYNCED_SIGNAL)
       THEN w_result' = Some("First") /\ TIME_SYNCED_SIGNAL' = None
       ELSE w_result' = Some("Second") /\ UNCHANGED TIME_SYNCED_SIGNAL

\* wait_time_sync_grace_period is called: it returns at once if the flag
\* is set, and otherwise arms the 30 s timer and waits.
GraceCall ==
    /\ ~restarted
    /\ w_pc = "idle"
    /\ IF is_time_synced
       THEN /\ w_pc' = "returned"
            /\ w_result' = Some("synced")
            /\ UNCHANGED <<w_timer, TIME_SYNCED_SIGNAL>>
       ELSE IF grace_over(TIME_SYNCED_SIGNAL, GRACE_SECS * 1000)
            THEN grace_return /\ UNCHANGED w_timer
            ELSE /\ w_pc' = "waiting"
                 /\ w_timer' = GRACE_SECS * 1000
                 /\ UNCHANGED <<w_result, TIME_SYNCED_SIGNAL>>
    /\ UNCHANGED <<HTTP_SENDING_ENABLED, since_start, mainVars, sensorVars, REBOOT_SIGNAL, rebootVars,
                   restarted, NETWORK_CHANNEL, netVars, TIME_SYNCED, sync_status, t_pc,
                   t_timer, wait_cycles, signals, marks, last_polled, sensorHist, netHist>>

\* The select is ready: the waiter returns.
GraceWake ==
    /\ ~restarted
    /\ w_pc = "waiting"
    /\ grace_over(TIME_SYNCED_SIGNAL, w_timer)
    /\ grace_return
    /\ UNCHANGED <<HTTP_SENDING_ENABLED, since_start, mainVars, sensorVars, REBOOT_SIGNAL, rebootVars,
                   restarted, NETWORK_CHANNEL, netVars, TIME_SYNCED, sync_status, t_pc,
                   t_timer, w_timer, wait_cycles, signals, marks, last_polled, sensorHist,
                   netHist>>

(* ------------------------------ main.rs -------------------------------- *)
\* The loop head of main.rs's own setup_ntp: the status is read; Completed
\* ends the loop with Ok, and run goes on to build the I2C driver and the
\* WeatherStation (either may fail) and to its one-second delay; after
\* MAIN_MAX_WAIT_CYCLES sleeps the function bails, and the `?` in run
\* returns the error to main; otherwise 100 ms of sleep.
main_poll(cycles) ==
    /\ m_cycles' = cycles
    /\ IF sync_status = "Completed"
       THEN \/ m_pc' = "start_delay" /\ m_timer' = MAIN_START_DELAY_MS /\ UNCHANGED m_error
            \/ m_pc' = "fatal" /\ m_error' = Some("sensors") /\ UNCHANGED m_timer
       ELSE IF cycles >= MAIN_MAX_WAIT_CYCLES
            THEN m_pc' = "fatal" /\ m_error' = Some("timeout") /\ UNCHANGED m_timer
            ELSE m_pc' = "ntp_wait" /\ m_timer' = MAIN_NTP_POLL_MS /\ UNCHANGED m_error

\* run calls setup_ntp: EspSntp::new_default() fails, or the loop is entered.
MainSetupNtp ==
    /\ ~restarted
    /\ m_pc = "ntp"
    /\ \/ m_pc' = "fatal" /\ m_error' = Some("init") /\ UNCHANGED <<m_timer, m_cycles>>
       \/ main_poll(0)
    /\ UNCHANGED <<HTTP_SENDING_ENABLED, since_start, waitVars, sensorVars, REBOOT_SIGNAL, rebootVars,
                   restarted, NETWORK_CHANNEL, netVars, timeVars, sensorHist, netHist>>

\* The 100 ms sleep is over: wait_cycles += 1 and the loop head again.
MainNtpResume ==
    /\ ~restarted
    /\ m_pc = "ntp_wait"
    /\ m_timer = 0
    /\ main_poll(m_cycles + 1)
    /\ UNCHANGED <<HTTP_SENDING_ENABLED, since_start, waitVars, sensorVars, REBOOT_SIGNAL, rebootVars,
                   restarted, NETWORK_CHANNEL, netVars, timeVars, sensorHist, netHist>>

\* The one-second delay of run is over: sensor_task is spawned.
MainSpawn ==
    /\ ~restarted
    /\ m_pc = "start_delay"
    /\ m_timer = 0
    /\ m_pc' = "spawned"
    /\ UNCHANGED <<HTTP_SENDING_ENABLED, since_start, waitVars, sensorVars, REBOOT_SIGNAL, rebootVars,
                   restarted, NETWORK_CHANNEL, netVars, timeVars, sensorHist, netHist,
                   m_timer, m_cycles, m_error>>

\* The SNTP service started by main.rs's setup_ntp changes its status.
MainSntpChange ==
    /\ ~restarted
    /\ m_pc = "ntp_wait"
    /\ sync_status' \in SyncStatuses \ {sync_status}
    /\ UNCHANGED <<HTTP_SENDING_ENABLED, since_start, mainVars, waitVars, sensorVars, REBOOT_SIGNAL,
                   rebootVars, restarted, NETWORK_CHANNEL, netVars, TIME_SYNCED,
                   TIME_SYNCED_SIGNAL, t_pc, t_timer, wait_cycles, signals, marks,
                   last_polled, sensorHist, netHist>>

(* --------------------------- specifications ---------------------------- *)
\* The delivery path: sensor_task (with a healthy SGP40, and a BME280 that
\* fails or delivers a complete sample) feeding network_task.
NetSamples == {Err, Ok([temperature |-> TRUE, humidity |-> TRUE, pressure |-> TRUE])}
NetVocOutcomes == {Err, Ok(2)}
NetTick == Tick(HTTP_SEND_INTERVAL_MS)
NetSensorStart == SensorStart(NetSamples)
NetSensorCycle == SensorCycle(NetSamples)
NetSensorMeasure == SensorMeasure(NetVocOutcomes)
NextNet == NetTick \/ StationNew \/ NetSensorStart \/ NetSensorCycle \/ NetSensorMeasure
              \/ NetStart \/ NetNew \/ NetPost \/ NetResume
SpecNet == Init /\ [][NextNet]_vars

\* The same under the executor's scheduling of sensor_task: time advances
\* and the task is polled whenever its timer has expired.  Nothing is
\* assumed about network_task, which may stop at any point.
SpecNetFair ==
    SpecNet /\ WF_vars(NetTick) /\ WF_vars(StationNew) /\ WF_vars(NetSensorStart)
            /\ WF_vars(NetSensorCycle) /\ WF_vars(NetSensorMeasure)

\* A construction of the client that succeeds.
NetNewOk == NetNew /\ builds' # builds

\* The delivery path under the executor's scheduling of network_task: time
\* advances, the task is polled whenever its timer has expired or a
\* reading is waiting, and the construction of the client does not fail
\* for ever.  Nothing is assumed about sensor_task.
SpecNetLive ==
    SpecNet /\ WF_vars(NetTick) /\ WF_vars(NetStart) /\ SF_vars(NetNewOk)
            /\ WF_vars(NetPost) /\ WF_vars(NetResume)

\* The delivered stream: the delivery path with sending enabled and every
\* POST answered with 200, beside ntp_sync_watcher, from the point where
\* setup_ntp has returned.
InitStream == InitTasks /\ InitTimeAfterSetup /\ HTTP_SENDING_ENABLED = "true"
StreamPost == NetPostOf({Ok(200)})
NextStream == NetTick \/ StationNew \/ NetSensorStart \/ NetSensorCycle \/ NetSensorMeasure
                \/ NetStart \/ NetNew \/ StreamPost \/ NetResume \/ NtpWatch \/ SntpChange
SpecStream == InitStream /\ [][NextStream]_vars

\* The health path: sensor_task with every sensor outcome, and the reboot
\* supervisor.
InitHealth == Init /\ HTTP_SENDING_ENABLED = "false"
HealthTick == Tick(HealthStep)
HealthSensorStart == SensorStart(BmeSamples)
HealthSensorCycle == SensorCycle(BmeSamples)
HealthSensorMeasure == SensorMeasure(VocOutcomes)
NextHealth == HealthTick \/ StationNew
                 \/ HealthSensorStart \/ HealthSensorCycle \/ HealthSensorMeasure
                 \/ RebootWake \/ RebootRestart
SpecHealth == InitHealth /\ [][NextHealth]_vars

\* The counter of Sgp40Health on its own: calls of sgp40_stuck_at_one with
\* any sequence of voc values, during and after the warm-up.
CounterVocs == {None, Some(1), Some(2)}
CounterCall == Sgp40StuckAtOne(CounterVocs)
NextCounter == HealthTick \/ StationNew \/ CounterCall
SpecCounter == InitHealth /\ [][NextCounter]_vars

\* The same under the executor's scheduling: time advances, and the
\* supervisor is polled once its signal is raised or its timer has expired.
SpecHealthFair ==
    SpecHealth /\ WF_vars(HealthTick) /\ WF_vars(RebootWake) /\ WF_vars(RebootRestart)

\* Time synchronisation: setup_ntp, then ntp_sync_watcher, against an SNTP
\* service whose status changes at any time.
InitSync == Init /\ HTTP_SENDING_ENABLED = "false"
SyncTick == \E d \in {NTP_POLL_MS, WATCH_PENDING_SECS * 1000, WATCH_SYNCED_SECS * 1000} :
                Tick(d)
NextSync == SyncTick \/ NtpSetup \/ NtpSetupResume \/ NtpWatch \/ SntpChange
SpecSync == InitSync /\ [][NextSync]_vars

\* A caller of wait_time_sync_grace_period beside the synchronisation.
GraceTick == \E d \in {GRACE_SECS * 1000, WATCH_SYNCED_SECS * 1000} : Tick(d)
NextGrace == GraceTick \/ NtpSetup \/ NtpSetupResume \/ NtpWatch \/ SntpChange
                \/ GraceCall \/ GraceWake
SpecGrace == InitSync /\ [][NextGrace]_vars

\* The same under the executor's scheduling of the waiter: time advances
\* and the waiter is polled once its select is ready.  Nothing is assumed
\* about the synchronisation.
SpecGraceFair == SpecGrace /\ WF_vars(GraceTick) /\ WF_vars(GraceWake)

\* The same with ntp_sync_watcher scheduled as well: it is polled once its
\* sleep is over.  Nothing is assumed about the SNTP service.
SpecWatchFair == SpecGraceFair /\ WF_vars(NtpWatch)

\* The startup of main.rs, with its own setup_ntp.
MainTick == \E d \in {MAIN_NTP_POLL_MS, MAIN_START_DELAY_MS} : Tick(d)
NextMain == MainTick \/ MainSetupNtp \/ MainNtpResume \/ MainSpawn \/ MainSntpChange
SpecMain == InitSync /\ [][NextMain]_vars

(* ------------------------------- claims -------------------------------- *)
WarmedUp == boot_elapsed >= SGP_40_WARMUP_SECS * 1000

C2_FailedClientDiscarded ==
    /\ n_pc = "receive" => client \notin failedClients
    /\ client \in failedClients => (n_pc = "delay" /\ lastOutcome = Some(Err))

C2_Witness ==
    /\ failedClients # {}
    /\ posts >= 2
    /\ lastPostClient \notin failedClients

\* C5: NETWORK_CHANNEL never holds more than 2 readings, and when it holds
\* 2 and the send interval has elapsed, the step of sensor_task that offers
\* a reading leaves the channel and last_send_time unchanged (try_send
\* fails, the reading is gone) and ends in the cadence sleep.
C5_FullQueueDropsNewest ==
    /\ [](Len(NETWORK_CHANNEL) <= 2)
    /\ [][(/\ s_pc = "settle" /\ s_pc' # "settle"
            /\ Len(NETWORK_CHANNEL) = 2
            /\ send_elapsed >= HTTP_SEND_INTERVAL_MS)
           => (/\ NETWORK_CHANNEL' = NETWORK_CHANNEL
               /\ try_send_result' = "full"
               /\ accepted' = accepted
               /\ send_elapsed' = send_elapsed
               /\ s_pc' = "sleep" /\ s_timer' = EXECUTION_DELAY_MS)]_vars

C5_Witness ==
    try_send_result = "full" /\ Len(NETWORK_CHANNEL) = 2 /\ s_pc = "sleep"

\* C6: readings leave the channel in the order in which they were
\* accepted: the k-th reading dequeued is the k-th accepted, and the
\* readings waiting are the following ones, in order.
C6_Fifo ==
    /\ lastDequeued = posts
    /\ posts > 0 => prevDequeued = posts - 1
    /\ \A i \in 1..Len(NETWORK_CHANNEL) : NETWORK_CHANNEL[i].seq = posts + i

C6_Witness ==
    posts >= 2 /\ Len(NETWORK_CHANNEL) = 2

\* C9: when sending is not enabled, network_task never constructs a client
\* (successfully or not), never dequeues and never POSTs: the readings
\* accepted by the channel stay there.
C9_DisabledDoesNothing ==
    HTTP_SENDING_ENABLED # "true" =>
        /\ n_pc \in {"start", "done"}
        /\ client = NoClient /\ builds = 0 /\ posts = 0
        /\ lastDequeued = 0 /\ lastOutcome = None
        /\ Len(NETWORK_CHANNEL) = accepted

C9_Witness ==
    HTTP_SENDING_ENABLED = "TRUE" /\ n_pc = "done" /\ Len(NETWORK_CHANNEL) = 2

\* C3: after the warm-up, check_stuck_condition returns true exactly on
\* the 20th and later calls of a run of calls with voc = Some(1), and a
\* call with another value or with None returns false and leaves the
\* counter at 0.
C3_StuckAtTwentieth ==
    WarmedUp =>
        /\ stuck_result <=> streak >= 20
        /\ observed # Some(Some(1)) => (consecutive_one = 0 /\ ~stuck_result)

C3_Witness ==
    WarmedUp /\ streak = 20 /\ stuck_result

\* C4: during the warm-up every call of check_stuck_condition returns
\* false and leaves the counter at 0 (whatever the counter and the voc
\* value were), no reboot is requested, and the counter never includes a
\* call made during the warm-up.
C4_WarmupSuppresses ==
    /\ ~WarmedUp => (/\ consecutive_one = 0 /\ ~stuck_result
                     /\ REBOOT_SIGNAL = None /\ r_pc = "wait")
    /\ consecutive_one <= streak
    /\ ~WarmedUp => \A c \in 0..MaxStreak : \A v \in {None, Some(1), Some(2)} :
          check_stuck_condition(c, v, boot_elapsed) = [counter |-> 0, stuck |-> FALSE]

C4_Witness ==
    ~WarmedUp /\ boot_elapsed > 0 /\ observed = Some(Some(1)) /\ s_pc = "sleep"

\* C10: read_sensor_data returns a reading exactly when the BME280 read
\* succeeded with temperature, humidity and pressure all present; a failed
\* SGP40 measurement still yields the reading, with voc absent.
Present(s) ==
    /\ Len(s) = 2
    /\ s[2].temperature /\ s[2].humidity /\ s[2].pressure

C10_ReadingIffTriple ==
    s_pc = "sleep" =>
        /\ read_result # None <=> Present(sample)
        /\ sgp_out = Some(Err) => (read_result # None /\ read_result[1].voc = None)
        /\ \A v \in {1, 2} : sgp_out = Some(Ok(v)) => read_result[1].voc = Some(v)

C10_Witness ==
    s_pc = "sleep" /\ read_result # None /\ sgp_out = Some(Err)

\* C7: TIME_SYNCED is monotone: it becomes true only in a step that polls
\* the status and finds it Completed, and it never becomes false again,
\* whatever the later polls observe.
C7_SyncedMonotone ==
    /\ [][TIME_SYNCED => TIME_SYNCED']_vars
    /\ [][(~TIME_SYNCED /\ TIME_SYNCED')
             => (sync_status = "Completed" /\ last_polled' = Some("Completed"))]_vars
    /\ [](~TIME_SYNCED => (last_polled # Some("Completed") /\ marks = 0))

C7_Witness ==
    TIME_SYNCED /\ t_pc = "watch_wait" /\ last_polled = Some("Reset")

\* C8: TIME_SYNCED_SIGNAL is signalled once, in the step that takes
\* TIME_SYNCED from false to true, and never again, however often
\* mark_time_synced is called afterwards.
C8_SignalledOnce ==
    /\ [](signals = IF TIME_SYNCED THEN 1 ELSE 0)
    /\ [][signals' # signals => (~TIME_SYNCED /\ TIME_SYNCED')]_vars

C8_Witness ==
    signals = 1 /\ marks = MaxMarks /\ t_pc = "watch_wait"

\* C11: the restart is invoked only by reboot_supervisor_task at the end
\* of its grace delay, only after a reboot request was raised on
\* REBOOT_SIGNAL, and a request is raised only in a cycle in which
\* check_stuck_condition returned true.
C11_RestartOnlyAfterStuck ==
    /\ [](restarted => (r_pc = "restarted" /\ requests > 0 /\ ever_stuck))
    /\ []((REBOOT_SIGNAL # None \/ r_pc # "wait") => (requests > 0 /\ ever_stuck))
    /\ [][requests' # requests => (s_pc = "settle" /\ stuck_result')]_vars
    /\ [][(~restarted /\ restarted') => (r_pc = "grace" /\ r_timer = 0)]_vars

C11_Witness ==
    restarted /\ requests = 1 /\ ever_stuck

\* C12 as stated: REBOOT_SIGNAL.signal is invoked once per streak, in the
\* cycle in which the streak reaches the threshold, and not in a later
\* cycle of the same streak.
C12_OneRequestPerStreak ==
    [][requests' # requests => streak' = SGP_40_STUCK_AT_ONE_THRESHOLD]_vars

\* C13: a reading is offered to NETWORK_CHANNEL only when at least
\* HTTP_SEND_INTERVAL_MS has passed since the last accepted one (or since
\* the task started), an accepted reading restarts that interval, and a
\* rejected one leaves it running, so that the next reading produced is
\* offered as well.
C13_EnqueueThrottled ==
    /\ [][(s_pc = "settle" /\ s_pc' = "sleep" /\ try_send_result' # "none")
             => send_elapsed >= HTTP_SEND_INTERVAL_MS]_vars
    /\ [][accepted' # accepted
             => (send_elapsed >= HTTP_SEND_INTERVAL_MS /\ send_elapsed' = 0)]_vars
    /\ [][(s_pc = "settle" /\ s_pc' = "sleep" /\ try_send_result' = "full")
             => (send_elapsed' = send_elapsed /\ NETWORK_CHANNEL' = NETWORK_CHANNEL)]_vars
    /\ [](try_send_result = "full" => send_elapsed >= HTTP_SEND_INTERVAL_MS)
    /\ [][(s_pc = "settle" /\ s_pc' = "sleep" /\ try_send_result = "full")
             => try_send_result' # "none"]_vars

C13_Witness ==
    s_pc = "sleep" /\ try_send_result = "full" /\ accepted = CHANNEL_CAPACITY

\* C17: once check_stuck_condition has returned true and the request is
\* raised, the supervisor takes the request, waits the grace delay and
\* then invokes the restart; the restart is never invoked before the
\* grace delay has passed.
C17_RequestLeadsToRestart ==
    /\ ever_stuck ~> restarted
    /\ [][(r_pc = "wait" /\ r_pc' # "wait")
             => (r_pc' = "grace" /\ r_timer' = REBOOT_GRACE_MS)]_vars
    /\ [][(~restarted /\ restarted') => (r_pc = "grace" /\ r_timer = 0)]_vars

C17_Witness ==
    restarted /\ r_pc = "restarted" /\ stuck_result /\ restarts = 1

\* C19 as stated: every acquisition cycle of sensor_task calls
\* check_stuck_condition exactly once.
C19_CheckedEveryCycle ==
    s_pc = "sleep" => cycle_checks = 1

\* C19: a cycle that produces a reading calls check_stuck_condition
\* exactly once, with the voc of that reading (None if the SGP40
\* measurement failed); a cycle whose BME280 read fails or is partial does
\* not call it and leaves the counter as it was.
C19_CheckedPerReading ==
    /\ [](s_pc = "sleep" => cycle_checks = IF read_result # None THEN 1 ELSE 0)
    /\ []((s_pc = "sleep" /\ read_result # None) => observed = Some(read_result[1].voc))
    /\ [][(s_pc \in {"start", "sleep"} /\ s_pc' = "sleep" /\ read_result' = None)
             => (consecutive_one' = consecutive_one /\ observed' = observed)]_vars

C19_Witness ==
    s_pc = "sleep" /\ read_result = None /\ cycle_checks = 0 /\ consecutive_one > 0

\* C20: REBOOT_SIGNAL holds at most one request however many were raised,
\* the supervisor's wait takes it out, and the restart is invoked at most
\* once, also when requests were raised again before the wait returned or
\* during the grace delay.
C20_SingleSlotLatch ==
    /\ [](Len(REBOOT_SIGNAL) <= 1)
    /\ []((requests > 0 /\ r_pc = "wait") => REBOOT_SIGNAL = Some("Sgp40StuckAtOne"))
    /\ [][(r_pc = "wait" /\ r_pc' # "wait")
             => (REBOOT_SIGNAL # None /\ REBOOT_SIGNAL' = None)]_vars
    /\ [](restarts <= 1 /\ (restarted <=> restarts = 1))
    /\ [][restarts' # restarts => (restarts = 0 /\ r_pc = "grace")]_vars

C20_Witness ==
    restarted /\ restarts = 1 /\ requests = MaxRequests /\ REBOOT_SIGNAL # None

\* C16: network_task waits for a reading and POSTs only while it holds
\* the client that the last HttpClient::new() returned; when the
\* construction fails the task goes into its two-second delay with the
\* channel untouched, and from there back to a new construction.
C16_PostOnlyWithClient ==
    /\ [](n_pc = "receive" => (client # NoClient /\ client = builds))
    /\ [][posts' # posts => (client # NoClient /\ client = builds
                                /\ lastPostClient' = client)]_vars
    /\ [][(n_pc = "new" /\ n_pc' # "new" /\ builds' = builds)
             => (/\ n_pc' = "delay" /\ n_timer' = INIT_RETRY_SECS * 1000
                 /\ client' = NoClient /\ posts' = posts
                 /\ NETWORK_CHANNEL' = NETWORK_CHANNEL)]_vars
    /\ [][(n_pc = "delay" /\ n_pc' # "delay") => (n_timer = 0 /\ n_pc' = "new")]_vars

C16_Witness ==
    n_pc = "delay" /\ client = NoClient /\ builds > 0
        /\ Len(NETWORK_CHANNEL) = CHANNEL_CAPACITY

\* Last step of an acquisition cycle: sensor_task has just started its
\* delay of EXECUTION_DELAY_MS.
CycleDone == s_pc = "sleep" /\ s_timer = EXECUTION_DELAY_MS

\* C18: under fair scheduling sensor_task completes acquisition cycles
\* again and again until the restart, whatever network_task does: disabled,
\* failing to construct a client, in one of its delays, or leaving the
\* channel full for ever.
C18_SensorNeverBlocked ==
    []<>(restarted \/ CycleDone)

C18_Witness ==
    CycleDone /\ try_send_result = "full" /\ n_pc = "delay" /\ client = NoClient

\* C14 as stated: running out of polling cycles is not fatal: setup_ntp
\* returns Ok and the startup goes on to start the tasks.
C14_TimeoutNotFatal ==
    ~(m_pc = "fatal" /\ m_error = Some("timeout"))

\* C15: wait_time_sync_grace_period always returns: at once when the flag
\* is already set, and otherwise when TIME_SYNCED_SIGNAL is raised or the
\* 30 s timer expires, whichever the waiter sees first; it never returns
\* for another reason and never stays waiting once the timer has expired.
C15_GraceTerminates ==
    /\ (w_pc = "waiting") ~> (w_pc = "returned")
    /\ [][(w_pc = "idle" /\ TIME_SYNCED /\ w_pc' # "idle")
             => (w_pc' = "returned" /\ w_result' = Some("synced"))]_vars
    /\ [][(w_pc # "returned" /\ w_pc' = "returned" /\ ~TIME_SYNCED)
             => (w_pc = "waiting" /\ w_timer = 0 /\ w_result' = Some("Second"))]_vars
    /\ [][(w_pc = "waiting" /\ w_pc' = "returned" /\ TIME_SYNCED_SIGNAL # None)
             => (w_result' = Some("First") /\ TIME_SYNCED_SIGNAL' = None)]_vars
    /\ [](w_pc = "waiting" => w_timer <= GRACE_SECS * 1000)

C15_Witness ==
    w_pc = "returned" /\ w_result = Some("Second") /\ ~TIME_SYNCED

\* ntp_sync_watcher is running: setup_ntp has returned its client.
Watching == t_pc \in {"ready", "watch_wait"}

\* C21: when setup_ntp has returned without the flag and the status
\* becomes and stays Completed, the watcher sets TIME_SYNCED; a task
\* waiting in wait_time_sync_grace_period when the flag is set finds the
\* signal raised and returns through it; the watcher never leaves its loop.
C21_BackgroundRecovery ==
    /\ (<>[](Watching /\ sync_status = "Completed")) => <>TIME_SYNCED
    /\ (w_pc = "waiting" /\ TIME_SYNCED)
          ~> (w_pc = "returned" /\ w_result = Some("First"))
    /\ []((w_pc = "waiting" /\ TIME_SYNCED) => signaled(TIME_SYNCED_SIGNAL))
    /\ [][Watching => Watching']_vars

C21_Witness ==
    /\ TIME_SYNCED /\ marks = 1 /\ wait_cycles = MAX_WAIT_CYCLES
    /\ t_pc = "watch_wait" /\ t_timer = WATCH_SYNCED_SECS * 1000
    /\ w_pc = "returned" /\ w_result = Some("First")

\* C22: every reading taken out of NETWORK_CHANNEL is POSTed once, in the
\* step that takes it out, whatever the POST returns; it never comes back
\* into the channel and is never POSTed again, and the next POST carries
\* the reading that was accepted next.
C22_AtMostOnce ==
    /\ [](accepted = posts + Len(NETWORK_CHANNEL))
    /\ [](lastDequeued = posts)
    /\ [](\A i \in 1..Len(NETWORK_CHANNEL) : NETWORK_CHANNEL[i].seq > lastDequeued)
    /\ [][posts' # posts
             => (/\ posts' = posts + 1 /\ NETWORK_CHANNEL # <<>>
                 /\ lastDequeued' = Head(NETWORK_CHANNEL).seq
                 /\ lastDequeued' = lastDequeued + 1
                 /\ NETWORK_CHANNEL' = Tail(NETWORK_CHANNEL))]_vars
    /\ [][(posts' = posts /\ NETWORK_CHANNEL' # NETWORK_CHANNEL)
             => (accepted' = accepted + 1 /\ Len(NETWORK_CHANNEL') = Len(NETWORK_CHANNEL) + 1
                 /\ NETWORK_CHANNEL'[Len(NETWORK_CHANNEL')].seq = accepted')]_vars

C22_Witness ==
    /\ posts = 2 /\ failedClients = {1} /\ lastPostClient = 2
    /\ lastOutcome = Some(Ok(429)) /\ prevDequeued = 1 /\ lastDequeued = 2

\* C23: with sending enabled and a construction of the client that does
\* not fail for ever, under fair scheduling each of the first MaxPosts
\* readings accepted by NETWORK_CHANNEL is eventually taken out and
\* POSTed: the task does not stay for ever with a reading waiting (the
\* channel is empty again and again until MaxPosts readings are POSTed),
\* and the readings POSTed are exactly the accepted ones that are no
\* longer in the channel.
C23_AcceptedIsDequeued ==
    /\ []<>(~is_sending_enabled \/ NETWORK_CHANNEL = <<>> \/ posts = MaxPosts)
    /\ [](is_sending_enabled => (accepted = posts + Len(NETWORK_CHANNEL) /\ lastDequeued = posts))
    /\ [](NETWORK_CHANNEL # <<>> => n_pc # "done" \/ ~is_sending_enabled)

C23_Witness ==
    /\ is_sending_enabled /\ accepted = MaxPosts /\ posts = MaxPosts
    /\ NETWORK_CHANNEL = <<>> /\ failedClients # {}

\* C24: a reading is stamped with the value TIME_SYNCED has when the
\* reading is built, and along the stream taken out of NETWORK_CHANNEL
\* time_synced never goes from true back to false: the readings waiting
\* behind a reading stamped true, and those taken out after one, are all
\* stamped true.
C24_SyncedStreamMonotone ==
    /\ [][lastSynced = Some(TRUE) => lastSynced' = Some(TRUE)]_vars
    /\ [](lastSynced = Some(TRUE)
            => \A i \in 1..Len(NETWORK_CHANNEL) : NETWORK_CHANNEL[i].time_synced)
    /\ [](\A i, j \in 1..Len(NETWORK_CHANNEL) :
            (i < j /\ NETWORK_CHANNEL[i].time_synced) => NETWORK_CHANNEL[j].time_synced)
    /\ [][(s_pc = "settle" /\ s_pc' = "sleep")
             => read_result'[1].time_synced = TIME_SYNCED]_vars
    /\ []((\E i \in 1..Len(NETWORK_CHANNEL) : NETWORK_CHANNEL[i].time_synced)
            => TIME_SYNCED)

C24_Witness ==
    deliveredFlags = {TRUE, FALSE} /\ lastSynced = Some(TRUE) /\ sync_status = "Reset"

\* C25: sensor_task offers no reading to NETWORK_CHANNEL before
\* HTTP_SEND_INTERVAL_MS has passed since the task started, although
\* nothing was sent yet and the channel is empty; the first reading
\* produced at or after that time is offered and accepted.
C25_NoEarlyEnqueue ==
    /\ [](since_start < HTTP_SEND_INTERVAL_MS
            => (accepted = 0 /\ NETWORK_CHANNEL = <<>> /\ try_send_result = "none"))
    /\ [][accepted' # accepted => since_start >= HTTP_SEND_INTERVAL_MS]_vars
    /\ [][(s_pc = "settle" /\ s_pc' = "sleep" /\ accepted = 0)
             => IF since_start >= HTTP_SEND_INTERVAL_MS
                THEN accepted' = 1 /\ try_send_result' = "ok"
                ELSE accepted' = 0 /\ try_send_result' = "none"]_vars

C25_Witness ==
    /\ accepted = 1 /\ try_send_result = "ok" /\ NETWORK_CHANNEL # <<>>
    /\ since_start >= HTTP_SEND_INTERVAL_MS /\ send_elapsed = 0

\* C26: consecutive_one stays within 0..65535 and never wraps: it is the
\* length of the current run of voc = 1 calls, held at 65535 once the run
\* is longer, so that after the warm-up every call from the 20th of a run
\* onward returns true, also beyond the 65535th.
C26_SaturatingCounter ==
    /\ consecutive_one \in 0..U16_MAX
    /\ consecutive_one = Min(streak, U16_MAX)
    /\ WarmedUp => (stuck_result <=> streak >= SGP_40_STUCK_AT_ONE_THRESHOLD)

C26_Witness ==
    streak = U16_MAX + 2 /\ consecutive_one = U16_MAX /\ stuck_result

====
